---------------------------- MODULE Spec2Model ----------------------------
(***************************************************************************)
(* TNUoS impact calculator: band classification, tariff key resolution,    *)
(* portfolio costing (tnuos_engine.py), band-drop opportunity analysis      *)
(* (scenario_manager.py) and the dashboard's what-if block                  *)
(* (tnuos_streamlit_app.py).                                                *)
(*                                                                         *)
(* Representation.                                                         *)
(*   - A Python string is a sequence of one-character strings, so that     *)
(*     strip(), upper(), concatenation and substring tests are computed.   *)
(*   - A number of a site record (kVA, kWh) is <<n>> with n in hundredths  *)
(*     of the unit, and NaN is <<>>.                                       *)
(*   - A tariff rate is <<r>> with r in thousandths, NaN is <<>>.          *)
(*   - A money amount before rounding is [w |-> whole pence,               *)
(*     f |-> fraction of a penny in 1/FracDen]; round(2) gives pence.      *)
(*     Arithmetic is exact decimal arithmetic (binary floating point       *)
(*     noise is not modelled).                                             *)
(*   - A DataFrame that the program holds by reference lives in the heap   *)
(*     `frames`; df.copy() allocates a new frame.                          *)
(***************************************************************************)
EXTENDS Integers, Sequences, FiniteSets, TLC

VARIABLES
    files,          \* the three tariff CSV files on disk (read on every costing)
    frames,         \* heap: frame id -> DataFrame of site records
    df_sites,       \* id of the caller's portfolio (single_site / df_sites)
    modeler,        \* ScenarioModeler object: [baseline_sites, year], or NoModeler
    df_sens,        \* id of the what-if frame of the sensitivity block, 0 if none
    res,            \* what the last operation's costing of the baseline returned
    res_sens,       \* what the last operation's what-if costing returned
    opportunities,  \* what the last operation's opportunity analysis returned
    op,             \* the operation that produced this state
    snapshot,       \* history: the caller's portfolio as loaded
    scenario        \* what the last capacity optimisation returned, or NoScenario

vars == <<files, frames, df_sites, modeler, df_sens, res, res_sens,
          opportunities, op, snapshot, scenario>>

----------------------------------------------------------------------------
(* Python values *)

NaN == <<>>
isna(x) == x = NaN
Num(n) == <<n>>
Val(x) == x[1]

\* n units (kVA or kWh) in the hundredths the model stores
Units(n) == n * 100

None == <<"None">>

\* str.upper() on the characters the model uses
UpperChar(c) ==
    CASE c = "h" -> "H"
      [] c = "n" -> "N"
      [] c = "l" -> "L"
      [] c = "v" -> "V"
      [] c = "e" -> "E"
      [] c = "m" -> "M"
      [] OTHER -> c

upper(s) == [i \in 1..Len(s) |-> UpperChar(s[i])]

RECURSIVE lstrip(_)
lstrip(s) == IF s # <<>> /\ Head(s) = " " THEN lstrip(Tail(s)) ELSE s

RECURSIVE rstrip(_)
rstrip(s) ==
    IF s # <<>> /\ s[Len(s)] = " " THEN rstrip(SubSeq(s, 1, Len(s) - 1)) ELSE s

strip(s) == rstrip(lstrip(s))

\* `sub in s` for strings
Contains(s, sub) ==
    \E i \in 1..(Len(s) - Len(sub) + 1) : SubSeq(s, i, i + Len(sub) - 1) = sub

S_HH == <<"H", "H">>
S_NHH == <<"N", "H", "H">>
S_LV == <<"L", "V">>
S_HV == <<"H", "V">>
S_EHV == <<"E", "H", "V">>
S_LV_NoMIC == <<"L", "V", "_", "N", "o", "M", "I", "C">>

----------------------------------------------------------------------------
(* SITE CLASSIFICATION LOGIC *)

\* the small-usage rule without its half-hourly case
SmallUsagePathNHHOnly(meter_type, capacity) == meter_type = S_NHH

\* A: the test that sends a site to the consumption thresholds
SmallUsagePath(meter_type, capacity) ==
    meter_type = S_NHH \/ (meter_type = S_HH /\ capacity = 0)

ConsumptionBand(consumption) ==
    IF consumption <= Units(3571) THEN "Band 1"
    ELSE IF consumption <= Units(12553) THEN "Band 2"
    ELSE IF consumption <= Units(25279) THEN "Band 3"
    ELSE "Band 4"

\* the thresholds as exclusive upper bounds
CapacityBandExclusive(voltage, capacity) ==
    IF voltage = S_LV
    THEN IF capacity < Units(80) THEN "Band 1"
         ELSE IF capacity < Units(150) THEN "Band 2"
         ELSE IF capacity < Units(231) THEN "Band 3"
         ELSE "Band 4"
    ELSE IF voltage = S_HV
    THEN IF capacity < Units(422) THEN "Band 1"
         ELSE IF capacity < Units(1000) THEN "Band 2"
         ELSE IF capacity < Units(1800) THEN "Band 3"
         ELSE "Band 4"
    ELSE IF voltage = S_EHV
    THEN IF capacity < Units(5000) THEN "Band 1"
         ELSE IF capacity < Units(12000) THEN "Band 2"
         ELSE IF capacity < Units(21500) THEN "Band 3"
         ELSE "Band 4"
    ELSE "Unclassified"

\* the first LV comparison turned round
CapacityBandTurned(voltage, capacity) ==
    IF voltage = S_LV
    THEN IF capacity >= Units(80) THEN "Band 1"
         ELSE IF capacity <= Units(150) THEN "Band 2"
         ELSE IF capacity <= Units(231) THEN "Band 3"
         ELSE "Band 4"
    ELSE IF voltage = S_HV
    THEN IF capacity <= Units(422) THEN "Band 1"
         ELSE IF capacity <= Units(1000) THEN "Band 2"
         ELSE IF capacity <= Units(1800) THEN "Band 3"
         ELSE "Band 4"
    ELSE IF voltage = S_EHV
    THEN IF capacity <= Units(5000) THEN "Band 1"
         ELSE IF capacity <= Units(12000) THEN "Band 2"
         ELSE IF capacity <= Units(21500) THEN "Band 3"
         ELSE "Band 4"
    ELSE "Unclassified"

\* B: large usage half-hourly, by capacity
CapacityBand(voltage, capacity) ==
    IF voltage = S_LV
    THEN IF capacity <= Units(80) THEN "Band 1"
         ELSE IF capacity <= Units(150) THEN "Band 2"
         ELSE IF capacity <= Units(231) THEN "Band 3"
         ELSE "Band 4"
    ELSE IF voltage = S_HV
    THEN IF capacity <= Units(422) THEN "Band 1"
         ELSE IF capacity <= Units(1000) THEN "Band 2"
         ELSE IF capacity <= Units(1800) THEN "Band 3"
         ELSE "Band 4"
    ELSE IF voltage = S_EHV
    THEN IF capacity <= Units(5000) THEN "Band 1"
         ELSE IF capacity <= Units(12000) THEN "Band 2"
         ELSE IF capacity <= Units(21500) THEN "Band 3"
         ELSE "Band 4"
    ELSE "Unclassified"

determine_tcr_band(row) ==
    LET voltage == upper(strip(row.voltage_level))
        meter_type == upper(strip(row.meter_type))
        capacity == IF isna(row.agreed_capacity_kva) THEN 0
                    ELSE Val(row.agreed_capacity_kva)
        consumption == IF isna(row.annual_consumption_kwh) THEN 0
                       ELSE Val(row.annual_consumption_kwh)
    IN  IF SmallUsagePath(meter_type, capacity)
        THEN ConsumptionBand(consumption)
        ELSE CapacityBand(voltage, capacity)

\* band.split(' ')[-1]
BandNum(band) ==
    CASE band = "Band 1" -> "1"
      [] band = "Band 2" -> "2"
      [] band = "Band 3" -> "3"
      [] band = "Band 4" -> "4"
      [] OTHER -> "Unclassified"

\* row carries tcr_band besides the site's fields
generate_tdr_lookup_key(row) ==
    LET band == row.tcr_band
        voltage == upper(row.voltage_level)
        meter == upper(row.meter_type)
        capacity == row.agreed_capacity_kva
    IN  IF band = "Unclassified" THEN None
        ELSE IF meter = S_NHH
                \/ (meter = S_HH /\ (isna(capacity) \/ Val(capacity) = 0))
        THEN S_LV_NoMIC \o <<"_", BandNum(band)>>
        ELSE voltage \o <<BandNum(band)>>

----------------------------------------------------------------------------
(* DATA INGESTION & CLEANING *)

\* Raw CSV row: [Year_FY, Group, Published_Date, Tariff]; Group is the Zone_No
\* of a locational file or the 'TDR Band' string of the residual file;
\* Published_Date is the text d/m/y as <<d, m, y>>.

\* pd.to_datetime(..., dayfirst=True): a value ordered as the calendar is
to_datetime(date) == date[3] * 10000 + date[2] * 100 + date[1]

\* character order of the characters the model uses (code point order)
CharOrder ==
    <<" ", "1", "2", "3", "4", "C", "D", "E", "H", "I", "L", "M", "N", "V",
      "X", "_", "e", "h", "l", "m", "n", "o", "v">>

Ord(c) == CHOOSE i \in 1..Len(CharOrder) : CharOrder[i] = c

RECURSIVE StrLess(_, _)
StrLess(a, b) ==
    IF b = <<>> THEN FALSE
    ELSE IF a = <<>> THEN TRUE
    ELSE IF Head(a) = Head(b) THEN StrLess(Tail(a), Tail(b))
    ELSE Ord(Head(a)) < Ord(Head(b))

\* the order sort_values uses on a group column
GroupLess(col, a, b) == IF col = "Zone_No" THEN a < b ELSE StrLess(a, b)

\* the group keys (Year_FY, group column) of a file, ascending
RECURSIVE SortedKeys(_, _)
SortedKeys(keys, col) ==
    IF keys = {} THEN <<>>
    ELSE LET KeyLess(a, b) == a[1] < b[1] \/ (a[1] = b[1] /\ GroupLess(col, a[2], b[2]))
             least == CHOOSE k \in keys : \A o \in keys : ~KeyLess(o, k)
         IN  <<least>> \o SortedKeys(keys \ {least}, col)

RowsOf(df) == {df[i] : i \in 1..Len(df)}

\* rows of one group that the descending date sort may put first
LatestRows(df, key) ==
    LET grp == {r \in RowsOf(df) : <<r.Year_FY, r.Group>> = key}
    IN  {r \in grp : \A o \in grp :
            to_datetime(o.Published_Date) <= to_datetime(r.Published_Date)}

RECURSIVE KeepFirst(_, _)
KeepFirst(df, keys) ==
    IF keys = <<>> THEN {<<>>}
    ELSE {<<r>> \o rest : r \in LatestRows(df, Head(keys)),
                          rest \in KeepFirst(df, Tail(keys))}

\* the sort without drop_duplicates: every row is kept
get_latest_forecast_keep_all(df, col) == {df}

\* rows of one group that an ascending date sort may put first
OldestRows(df, key) ==
    LET grp == {r \in RowsOf(df) : <<r.Year_FY, r.Group>> = key}
    IN  {r \in grp : \A o \in grp :
            to_datetime(r.Published_Date) <= to_datetime(o.Published_Date)}

RECURSIVE KeepOldest(_, _)
KeepOldest(df, keys) ==
    IF keys = <<>> THEN {<<>>}
    ELSE {<<r>> \o rest : r \in OldestRows(df, Head(keys)),
                          rest \in KeepOldest(df, Tail(keys))}

\* the date sorted ascending like the group columns
get_latest_forecast_ascending(df, col) ==
    KeepOldest(df, SortedKeys({<<r.Year_FY, r.Group>> : r \in RowsOf(df)}, col))

\* The set of tables the call may return: sort_values is not a stable sort, so
\* among rows of one group with the same latest date any one may come first.
get_latest_forecast(df, col) ==
    KeepFirst(df, SortedKeys({<<r.Year_FY, r.Group>> : r \in RowsOf(df)}, col))

\* raw_band.split('_')[-1]
RECURSIVE LastField(_)
LastField(s) ==
    IF \E i \in 1..Len(s) : s[i] = "_"
    THEN LastField(Tail(s))
    ELSE s

S_Band == <<"_", "B", "a", "n", "d">>

map_tdr_band_to_key(raw_band) ==
    IF raw_band \in {S_LV \o <<n>> : n \in {"1", "2", "3", "4"}}
    THEN S_LV \o S_Band \o <<raw_band[Len(raw_band)]>>
    ELSE IF raw_band \in {S_HV \o <<n>> : n \in {"1", "2", "3", "4"}}
    THEN S_HV \o S_Band \o <<raw_band[Len(raw_band)]>>
    ELSE IF raw_band \in {S_EHV \o <<n>> : n \in {"1", "2", "3", "4"}}
    THEN S_EHV \o S_Band \o <<raw_band[Len(raw_band)]>>
    ELSE IF Contains(raw_band, S_LV_NoMIC)
    THEN S_LV_NoMIC \o S_Band \o LastField(raw_band)
    ELSE <<"Ignore">>

\* The set of (df_hh_clean, df_nhh_clean, df_tdr_clean) the loader may return.
load_and_clean_data(f) ==
    LET Loc(t) == [i \in 1..Len(t) |->
                     [Year_FY |-> t[i].Year_FY, Zone_No |-> t[i].Group,
                      rate |-> t[i].Tariff]]
        Tdr(t) == LET keyed == [i \in 1..Len(t) |->
                                  [Year_FY |-> t[i].Year_FY,
                                   TDR_Band |-> t[i].Group,
                                   rate_residual_p_day |-> t[i].Tariff,
                                   lookup_key |-> map_tdr_band_to_key(t[i].Group)]]
                      NotIgnored(r) == r.lookup_key # <<"Ignore">>
                  IN  SelectSeq(keyed, NotIgnored)
    IN  {[hh |-> Loc(h), nhh |-> Loc(n), tdr |-> Tdr(t)] :
            h \in get_latest_forecast(f.hh, "Zone_No"),
            n \in get_latest_forecast(f.nhh, "Zone_No"),
            t \in get_latest_forecast(f.tdr, "TDR Band")}

----------------------------------------------------------------------------
(* Money: exact decimal arithmetic *)

FracDen == 100 * 1000

\* a * b / d pence, d dividing FracDen
MulDiv(a, b, d) ==
    LET q == b \div d
        r == b % d
    IN  [w |-> a * q + (a * r) \div d, f |-> ((a * r) % d) * (FracDen \div d)]

Add(x, y) ==
    [w |-> x.w + y.w + (x.f + y.f) \div FracDen, f |-> (x.f + y.f) % FracDen]

\* .round(2) of an amount: whole pence, ties to even
Round2(x) ==
    IF 2 * x.f > FracDen THEN x.w + 1
    ELSE IF 2 * x.f = FracDen THEN x.w + (x.w % 2)
    ELSE x.w

\* .fillna(0).round(2)
FillRound(x) == IF isna(x) THEN 0 ELSE Round2(Val(x))

----------------------------------------------------------------------------
(* DataFrames *)

\* A frame of the heap: [rows |-> sequence of site records,
\*                       derived |-> the added columns tcr_band and tdr_key, row by
\*                                   row, or <<>> while the frame has no such columns]

NewId(fr) == CHOOSE i \in 1..(Cardinality(DOMAIN fr) + 1) : i \notin DOMAIN fr

\* df.copy(): a new frame with the same content
DataFrameCopy(fr, ref) ==
    LET id == NewId(fr)
    IN  [frames |-> [i \in DOMAIN fr \cup {id} |-> IF i = id THEN fr[ref] ELSE fr[i]],
         id |-> id]

\* The heap once a call has returned: the frames still referenced, that is the
\* caller's portfolio, the modeler's baseline and the what-if frame. Frame ids are
\* addresses without meaning, so the live frames are renumbered 1, 2, 3 in that
\* order (a reference that aliases an earlier one keeps the earlier one's id).
Collect(fr, sites_id, mod_id, sens_id) ==
    LET m == IF mod_id = 0 THEN 0 ELSE IF mod_id = sites_id THEN 1 ELSE 2
        s == IF sens_id = 0 THEN 0
             ELSE IF sens_id = sites_id THEN 1
             ELSE IF sens_id = mod_id THEN 2
             ELSE 3
    IN  [frames |-> [i \in {1} \cup ({m, s} \ {0}) |->
                        IF i = 1 THEN fr[sites_id]
                        ELSE IF i = m THEN fr[mod_id]
                        ELSE fr[sens_id]],
         baseline_sites |-> m,
         df_sens |-> s]

\* pd.merge(left, right, left_on, right_on, how='left'): for every left row, in
\* order, one row per matching right row, or one row with NaN in right's columns
RECURSIVE pd_merge(_, _, _, _, _)
pd_merge(left, right, left_on, right_on, right_cols) ==
    IF left = <<>> THEN <<>>
    ELSE LET l == Head(left)
             Match(r) == r[right_on] = l[left_on]
             hits == SelectSeq(right, Match)
             out == IF hits = <<>>
                    THEN <<[c \in right_cols |-> NaN] @@ l>>
                    ELSE [k \in 1..Len(hits) |-> hits[k] @@ l]
         IN  out \o pd_merge(Tail(left), right, left_on, right_on, right_cols)

\* number of rows selected by mask among the first i
Rank(mask, i) == Cardinality({j \in 1..i : mask[j]})

Zero == [w |-> 0, f |-> 0]

\* product of two columns' values, NaN if either is
Times(rate, qty, d) ==
    IF isna(rate) \/ isna(qty) THEN NaN ELSE Num(MulDiv(Val(rate), Val(qty), d))

Plus(x, y) == IF isna(x) \/ isna(y) THEN NaN ELSE Num(Add(Val(x), Val(y)))

----------------------------------------------------------------------------
(* CALCULATION ENGINE *)

\* df_calc = df_sites.copy()
df_calc_copy(fr, ref) == DataFrameCopy(fr, ref)

\* the assignment of temp[rate] without .values: aligned on the index labels
AssignLocationalByIndex(df, mask, values, qty_col, d) ==
    [i \in 1..Len(df) |->
        IF mask[i]
        THEN LET rate == IF i <= Len(values) THEN values[i] ELSE NaN
             IN  [df[i] EXCEPT !.locational_rate = rate,
                               !.locational_cost_pound = Times(rate, df[i][qty_col], d)]
        ELSE df[i]]

\* df_calc.loc[mask, 'locational_rate'] = temp[rate].values, then
\* df_calc.loc[mask, 'locational_cost_pound'] = rate * quantity (/ 100 for NHH)
AssignLocational(df, mask, values, qty_col, d) ==
    [i \in 1..Len(df) |->
        IF mask[i]
        THEN LET rate == values[Rank(mask, i)]
             IN  [df[i] EXCEPT !.locational_rate = rate,
                               !.locational_cost_pound = Times(rate, df[i][qty_col], d)]
        ELSE df[i]]

\* What a step leaves: [ok |-> TRUE, df |-> the rows], or Raised when pandas
\* raised (a ValueError: the values assigned to the masked rows are not as many
\* as the rows)
Raised == [ok |-> FALSE, df |-> <<>>]

\* df[df['Year_FY'] == target_year]
ForYear(rates, target_year) ==
    LET ThisYear(r) == r.Year_FY = target_year
    IN  SelectSeq(rates, ThisYear)

\* df_calc[df_calc['meter_type'] == meter]
OfMeter(df, meter) ==
    LET Is(r) == r.meter_type = meter
    IN  SelectSeq(df, Is)

\* c. merge residual rates, then init columns locational_rate, locational_cost_pound
MergeResidual(df1, tdr_rates) ==
    LET df2 == pd_merge(df1, tdr_rates, "tdr_key", "TDR_Band",
                        {"Year_FY", "TDR_Band", "rate_residual_p_day", "lookup_key"})
    IN  [ok |-> TRUE,
         df |-> [i \in 1..Len(df2) |->
                   [locational_rate |-> Num(0), locational_cost_pound |-> Num(Zero)]
                   @@ df2[i]]]

\* the assignment of temp's rate column to the rows of df with meter_type = meter
AssignMerged(df, meter, temp, qty_col, d) ==
    IF OfMeter(df, meter) = <<>> THEN [ok |-> TRUE, df |-> df]
    ELSE IF Len(temp) # Len(OfMeter(df, meter)) THEN Raised
    ELSE [ok |-> TRUE,
          df |-> AssignLocational(df, [i \in 1..Len(df) |-> df[i].meter_type = meter],
                                  [k \in 1..Len(temp) |-> temp[k].rate], qty_col, d)]

\* d. HH merge / NHH merge: rates by dno_zone for the rows of one meter type
MergeLocational(s, meter, rates, qty_col, d) ==
    IF ~s.ok THEN Raised
    ELSE AssignMerged(s.df, meter,
                      pd_merge(OfMeter(s.df, meter), rates, "dno_zone", "Zone_No",
                               {"Year_FY", "Zone_No", "rate"}),
                      qty_col, d)

\* e., f. and the cleanup, for one row
FinalRow(r, residual) ==
    [residual_cost_pound |-> FillRound(residual),
     locational_cost_pound |-> FillRound(r.locational_cost_pound),
     total_tnuos_cost |-> FillRound(Plus(residual, r.locational_cost_pound))] @@ r

\* the residual with its daily rate read as pence
FinalCostsOfPence(s, target_year) ==
    IF ~s.ok THEN [ok |-> FALSE, year |-> target_year, rows |-> <<>>]
    ELSE [ok |-> TRUE, year |-> target_year,
          rows |-> [i \in 1..Len(s.df) |->
                      FinalRow(s.df[i], Times(s.df[i].rate_residual_p_day, Num(365), 1000))]]

FinalCosts(s, target_year) ==
    IF ~s.ok THEN [ok |-> FALSE, year |-> target_year, rows |-> <<>>]
    ELSE [ok |-> TRUE, year |-> target_year,
          rows |-> [i \in 1..Len(s.df) |->
                      FinalRow(s.df[i], Times(s.df[i].rate_residual_p_day, Num(365), 10))]]

\* Steps c. to f. on the classified rows df1 against the loaded tables t:
\* [ok |-> FALSE] when pandas raises, else the result rows.
Costing(df1, t, target_year) ==
    FinalCosts(
        MergeLocational(
            MergeLocational(MergeResidual(df1, ForYear(t.tdr, target_year)),
                            S_HH, ForYear(t.hh, target_year),
                            "agreed_capacity_kva", 1000),
            S_NHH, ForYear(t.nhh, target_year), "annual_consumption_kwh", 100000),
        target_year)

\* b. the columns tcr_band and tdr_key of rows df_calc
Classified(df_calc) ==
    [i \in 1..Len(df_calc) |->
        [tcr_band |-> determine_tcr_band(df_calc[i]),
         tdr_key |-> generate_tdr_lookup_key(
                        [tcr_band |-> determine_tcr_band(df_calc[i])] @@ df_calc[i])]]

WithColumns(df_calc, derived) == [i \in 1..Len(df_calc) |-> derived[i] @@ df_calc[i]]

CostedCopy(cp, derived, t, target_year) ==
    [frames |-> [cp.frames EXCEPT ![cp.id].derived = derived],
     result |-> Costing(WithColumns(cp.frames[cp.id].rows, derived), t, target_year)]

ClassifiedCopy(cp, t, target_year) ==
    CostedCopy(cp, Classified(cp.frames[cp.id].rows), t, target_year)

\* calculate_portfolio_impact(df_sites, target_year) on heap fr with df_sites = ref
\* and tables t as loaded: the heap it leaves and the value it returns.
calculate_portfolio_impact(fr, ref, t, target_year) ==
    ClassifiedCopy(df_calc_copy(fr, ref), t, target_year)

----------------------------------------------------------------------------
(* SCENARIO MODELER *)

\* self.baseline_sites = sites_df.copy()
baseline_sites_copy(fr, ref) == DataFrameCopy(fr, ref)

BandsWithTarget == {"Band 4", "Band 3", "Band 2"}

\* the map with a digit of the consumption target of Band 3 mistyped
tcr_thresholds_mistyped(group, volt) ==
    IF group = "HH" /\ volt = S_LV
    THEN [b \in BandsWithTarget |->
            CASE b = "Band 4" -> Units(231) [] b = "Band 3" -> Units(150)
              [] OTHER -> Units(80)]
    ELSE IF group = "HH" /\ volt = S_HV
    THEN [b \in BandsWithTarget |->
            CASE b = "Band 4" -> Units(1800) [] b = "Band 3" -> Units(1000)
              [] OTHER -> Units(422)]
    ELSE IF group = "HH" /\ volt = S_EHV
    THEN [b \in BandsWithTarget |->
            CASE b = "Band 4" -> Units(21500) [] b = "Band 3" -> Units(12000)
              [] OTHER -> Units(5000)]
    ELSE [b \in BandsWithTarget |->
            CASE b = "Band 4" -> Units(25279) [] b = "Band 3" -> Units(12533)
              [] OTHER -> Units(3571)]

\* tcr_thresholds[group][volt], group 'HH' with volt one of its keys, or
\* group 'NHH' with volt 'ALL'
tcr_thresholds(group, volt) ==
    IF group = "HH" /\ volt = S_LV
    THEN [b \in BandsWithTarget |->
            CASE b = "Band 4" -> Units(231) [] b = "Band 3" -> Units(150)
              [] OTHER -> Units(80)]
    ELSE IF group = "HH" /\ volt = S_HV
    THEN [b \in BandsWithTarget |->
            CASE b = "Band 4" -> Units(1800) [] b = "Band 3" -> Units(1000)
              [] OTHER -> Units(422)]
    ELSE IF group = "HH" /\ volt = S_EHV
    THEN [b \in BandsWithTarget |->
            CASE b = "Band 4" -> Units(21500) [] b = "Band 3" -> Units(12000)
              [] OTHER -> Units(5000)]
    ELSE [b \in BandsWithTarget |->
            CASE b = "Band 4" -> Units(25279) [] b = "Band 3" -> Units(12553)
              [] OTHER -> Units(3571)]

\* n / d to the nearest integer, ties to even (what a format specification does)
RoundDiv(n, d) ==
    LET q == n \div d
        r == n % d
    IN  IF 2 * r > d THEN q + 1 ELSE IF 2 * r = d THEN q + (q % 2) ELSE q

\* The analysis of one result row: [map |-> whether a threshold map was selected,
\* metric_value, metric_unit, threshold_map]
Strategy(row) ==
    LET volt == row.voltage_level
        meter == row.meter_type
    IN  IF meter = S_HH
        THEN [metric_value |-> row.agreed_capacity_kva, metric_unit |-> "kVA",
              map |-> volt \in {S_LV, S_HV, S_EHV},
              threshold_map |-> tcr_thresholds("HH", volt)]
        ELSE IF meter = S_NHH
        THEN [metric_value |-> row.annual_consumption_kwh, metric_unit |-> "kWh",
              map |-> TRUE,
              threshold_map |-> tcr_thresholds("NHH", <<"A", "L", "L">>)]
        ELSE [metric_value |-> Num(0), metric_unit |-> "",
              map |-> FALSE,
              threshold_map |-> tcr_thresholds("NHH", <<"A", "L", "L">>)]

\* target_val < metric_value <= upper_limit_check, upper_limit_check = 1.2 * target_val
InMarginStrict(target_val, metric_value) ==
    ~isna(metric_value)
    /\ target_val < Val(metric_value)
    /\ 10 * Val(metric_value) < 12 * target_val

\* the 20% taken of the current value: metric_value <= target_val / 0.8
InMarginOfCurrent(target_val, metric_value) ==
    ~isna(metric_value)
    /\ target_val < Val(metric_value)
    /\ 4 * Val(metric_value) <= 5 * target_val

\* the test without its upper limit
InMarginNoUpperLimit(target_val, metric_value) ==
    ~isna(metric_value) /\ target_val < Val(metric_value)

InMargin(target_val, metric_value) ==
    ~isna(metric_value)
    /\ target_val < Val(metric_value)
    /\ 10 * Val(metric_value) <= 12 * target_val

IsOpportunity(row) ==
    LET st == Strategy(row)
    IN  /\ st.map
        /\ row.tcr_band \in DOMAIN st.threshold_map
        /\ InMargin(st.threshold_map[row.tcr_band], st.metric_value)

\* percentage taken of the target instead of the current value
OpportunityOfTarget(row) ==
    LET st == Strategy(row)
        metric_value == Val(st.metric_value)
        target_val == st.threshold_map[row.tcr_band]
        reduction_needed == metric_value - target_val
    IN  [Site_ID |-> row.site_id,
         Current_Band |-> row.tcr_band,
         Current_Level |-> [value |-> RoundDiv(metric_value, 100), unit |-> st.metric_unit],
         Target_Level |-> [value |-> RoundDiv(target_val, 100), unit |-> st.metric_unit],
         Reduction_Needed |-> [value |-> RoundDiv(reduction_needed, 10),
                               unit |-> st.metric_unit,
                               pct |-> RoundDiv(reduction_needed * 1000, target_val)]]

\* The dictionary appended for a row: levels formatted with no decimals, the
\* reduction and its percentage with one (value and pct are in tenths).
Opportunity(row) ==
    LET st == Strategy(row)
        metric_value == Val(st.metric_value)
        target_val == st.threshold_map[row.tcr_band]
        reduction_needed == metric_value - target_val
    IN  [Site_ID |-> row.site_id,
         Current_Band |-> row.tcr_band,
         Current_Level |-> [value |-> RoundDiv(metric_value, 100), unit |-> st.metric_unit],
         Target_Level |-> [value |-> RoundDiv(target_val, 100), unit |-> st.metric_unit],
         Reduction_Needed |-> [value |-> RoundDiv(reduction_needed, 10),
                               unit |-> st.metric_unit,
                               pct |-> RoundDiv(reduction_needed * 1000, metric_value)]]

RECURSIVE Scan(_)
Scan(df_res) ==
    IF df_res = <<>> THEN <<>>
    ELSE (IF IsOpportunity(Head(df_res)) THEN <<Opportunity(Head(df_res))>> ELSE <<>>)
         \o Scan(Tail(df_res))

Scanned(c) ==
    [frames |-> c.frames,
     df_res |-> c.result,
     result |-> [ok |-> c.result.ok,
                 rows |-> IF c.result.ok THEN Scan(c.result.rows) ELSE <<>>]]

\* identify_band_drop_opportunities(self) on heap fr with self.baseline_sites = ref
\* and self.year = year: the heap it leaves, the costed table it scanned and the
\* list it returns (ok FALSE when the costing raised).
identify_band_drop_opportunities(fr, ref, t, year) ==
    Scanned(calculate_portfolio_impact(fr, ref, t, year))

----------------------------------------------------------------------------
(* DASHBOARD: what-if block *)

\* df_sens bound to the frame itself
df_sens_alias(fr, ref) == [frames |-> fr, id |-> ref]

\* df_sens = single_site[input_cols].copy(): the input columns only, in a new frame
df_sens_copy(fr, ref) ==
    LET cp == DataFrameCopy(fr, ref)
    IN  [frames |-> [cp.frames EXCEPT ![cp.id].derived = <<>>], id |-> cp.id]

\* column * factor, factor = 1 + sens_slider / 100
Scaled(x, sens_slider) ==
    IF isna(x) THEN NaN ELSE Num((Val(x) * (100 + sens_slider)) \div 100)

ApplyFactor(rows, sens_slider) ==
    [i \in 1..Len(rows) |->
        [rows[i] EXCEPT
            !.annual_consumption_kwh = Scaled(rows[i].annual_consumption_kwh, sens_slider),
            !.agreed_capacity_kva = Scaled(rows[i].agreed_capacity_kva, sens_slider)]]

----------------------------------------------------------------------------
(* Inputs *)

\* sites of a portfolio (portfolios are not empty)
MaxSites == 2

Years == {2026, 2027, 2028}

\* slider positions (whole percents) for which the scaled quantities stay
\* within the hundredths the model keeps
Sliders == {-10, 20}

Date(d, m, y) == <<d, m, y>>

Row(year, group, date, tariff) ==
    [Year_FY |-> year, Group |-> group, Published_Date |-> date, Tariff |-> Num(tariff)]

S_LV2 == S_LV \o <<"2">>
S_LV_NoMIC_3 == S_LV_NoMIC \o <<"_", "3">>
S_Domestic == <<"D", "o", "m", "e", "e", "e">>

\* Tariff files: forecasts for 2026 and 2027, none for 2028; zone 3 has no
\* locational tariff; only LV2, LV4 and LV_NoMIC_3 have a residual tariff.
FilesA ==
    [hh  |-> << Row(2026, 1, Date(15, 1, 2025), 4000),
                Row(2026, 1, Date(3, 2, 2025), 5123),
                Row(2026, 2, Date(3, 2, 2025), 2500),
                Row(2027, 1, Date(3, 2, 2025), 6000),
                Row(2027, 2, Date(3, 2, 2025), 3200) >>,
     nhh |-> << Row(2026, 1, Date(3, 2, 2025), 637),
                Row(2026, 2, Date(3, 2, 2025), 1005),
                Row(2027, 1, Date(1, 12, 2024), 650),
                Row(2027, 1, Date(3, 2, 2025), 700) >>,
     tdr |-> << Row(2026, S_LV2, Date(3, 2, 2025), 1234),
                Row(2026, S_LV2, Date(15, 1, 2025), 1000),
                Row(2026, S_LV_NoMIC_3, Date(3, 2, 2025), 124),
                Row(2026, S_Domestic, Date(3, 2, 2025), 50),
                Row(2027, S_LV2, Date(3, 2, 2025), 1500),
                Row(2027, S_LV \o <<"4">>, Date(3, 2, 2025), 9000) >>]

\* The same forecasts listed latest first, with other tariffs
FilesB ==
    [hh  |-> << Row(2027, 2, Date(3, 2, 2025), 3300),
                Row(2026, 2, Date(3, 2, 2025), 2600),
                Row(2026, 1, Date(3, 2, 2025), 5000),
                Row(2026, 1, Date(15, 1, 2025), 4100) >>,
     nhh |-> << Row(2026, 2, Date(3, 2, 2025), 1100),
                Row(2026, 1, Date(3, 2, 2025), 600) >>,
     tdr |-> << Row(2027, S_LV_NoMIC_3, Date(3, 2, 2025), 200),
                Row(2026, S_LV_NoMIC_3, Date(3, 2, 2025), 130),
                Row(2026, S_LV2, Date(15, 1, 2025), 1100),
                Row(2026, S_LV2, Date(3, 2, 2025), 1300) >>]

RateFiles == {FilesA, FilesB}

Site(meter, volt, zone, kva, kwh) ==
    [meter_type |-> meter, voltage_level |-> volt, dno_zone |-> zone,
     agreed_capacity_kva |-> kva, annual_consumption_kwh |-> kwh]

S_MV == <<"M", "V">>

\* Sites of a portfolio: both meter types, zones with and without tariff, bands
\* with and without residual tariff, a voltage outside the table
SampleSites ==
    { Site(S_HH, S_LV, 1, Num(Units(141)), Num(0)),
      Site(S_HH, S_LV, 2, Num(Units(160)), Num(0)),
      Site(S_NHH, S_LV, 1, Num(0), Num(Units(13000))),
      Site(S_NHH, S_HV, 3, Num(0), Num(Units(4000))),
      Site(S_HH, S_MV, 1, Num(Units(100)), Num(0)),
      Site(S_HH, S_LV, 3, Num(Units(120)), Num(Units(500))) }

\* A portfolio: 1..MaxSites sites, site_id the position
Portfolios(sites) ==
    UNION { { [i \in 1..n |-> [site_id |-> i] @@ f[i]] : f \in [1..n -> sites] }
            : n \in 1..MaxSites }

NoResult == [ok |-> TRUE, year |-> 0, rows |-> <<>>]
NoModeler == [baseline_sites |-> 0, year |-> 0]
NoOpportunities == [ok |-> TRUE, rows |-> <<>>, df_res |-> NoResult]
NoScenario == [name |-> "", reduction_percentage |-> 0, sites |-> <<>>,
               result |-> NoResult]

----------------------------------------------------------------------------
(* The session *)

Loaded(f, portfolio) ==
    /\ files = f
    /\ frames = [i \in {1} |-> [rows |-> portfolio, derived |-> <<>>]]
    /\ df_sites = 1
    /\ modeler = NoModeler
    /\ df_sens = 0
    /\ res = NoResult
    /\ res_sens = NoResult
    /\ opportunities = NoOpportunities
    /\ op = "load"
    /\ snapshot = [rows |-> portfolio, derived |-> <<>>]
    /\ scenario = NoScenario

Init == \E f \in RateFiles, p \in Portfolios(SampleSites) : Loaded(f, p)

\* res = calculate_portfolio_impact(df_sites, target_year=yr)
CalculateImpact ==
    \E yr \in Years, t \in load_and_clean_data(files) :
    \E c \in {calculate_portfolio_impact(frames, df_sites, t, yr)} :
    \E h \in {Collect(c.frames, df_sites, modeler.baseline_sites, df_sens)} :
        /\ frames' = h.frames
        /\ modeler' = [modeler EXCEPT !.baseline_sites = h.baseline_sites]
        /\ df_sens' = h.df_sens
        /\ res' = c.result
        /\ res_sens' = NoResult
        /\ opportunities' = NoOpportunities
        /\ op' = "calculate"
        /\ scenario' = NoScenario
        /\ UNCHANGED <<files, df_sites, snapshot>>

\* modeler = ScenarioModeler(df_sites, year); modeler.identify_band_drop_opportunities()
IdentifyOpportunities ==
    \E year \in Years, t \in load_and_clean_data(files) :
    \E cp \in {baseline_sites_copy(frames, df_sites)} :
    \E self \in {[baseline_sites |-> cp.id, year |-> year]} :
    \E r \in {identify_band_drop_opportunities(cp.frames, self.baseline_sites, t,
                                               self.year)} :
    \E h \in {Collect(r.frames, df_sites, self.baseline_sites, df_sens)} :
        /\ frames' = h.frames
        /\ modeler' = [self EXCEPT !.baseline_sites = h.baseline_sites]
        /\ df_sens' = h.df_sens
        /\ opportunities' = [ok |-> r.result.ok, rows |-> r.result.rows,
                             df_res |-> r.df_res]
        /\ res' = NoResult
        /\ res_sens' = NoResult
        /\ op' = "opportunities"
        /\ scenario' = NoScenario
        /\ UNCHANGED <<files, df_sites, snapshot>>

\* df_sens with both columns multiplied by factor
ScaledCopy(cp, sens_slider) ==
    [frames |-> [cp.frames EXCEPT ![cp.id].rows = ApplyFactor(@, sens_slider)],
     id |-> cp.id]

\* single_site: the one row built from the quick-quote form, whose voltage
\* and meter type come from its select boxes
QuickQuote(rows) ==
    /\ Len(rows) = 1
    /\ rows[1].voltage_level \in {S_LV, S_HV, S_EHV}
    /\ rows[1].meter_type \in {S_HH, S_NHH}

\* The sensitivity block with sens_slider # 0, which follows the modeler's
\* analysis of the quick-quote site and uses its calculation_year: cost the
\* scaled copy, then the baseline again (res_base_check).
SensitivityAnalysis ==
    /\ QuickQuote(frames[df_sites].rows)
    /\ modeler # NoModeler
    /\ \E sens_slider \in Sliders,
          t \in load_and_clean_data(files), t2 \in load_and_clean_data(files) :
       \E cp \in {ScaledCopy(df_sens_copy(frames, df_sites), sens_slider)} :
       \E c1 \in {calculate_portfolio_impact(cp.frames, cp.id, t, modeler.year)} :
       \E c2 \in {calculate_portfolio_impact(c1.frames, df_sites, t2, modeler.year)} :
       \E h \in {Collect(c2.frames, df_sites, modeler.baseline_sites, cp.id)} :
        /\ frames' = h.frames
        /\ modeler' = [modeler EXCEPT !.baseline_sites = h.baseline_sites]
        /\ df_sens' = h.df_sens
        /\ res_sens' = c1.result
        /\ res' = c2.result
        /\ opportunities' = NoOpportunities
        /\ op' = "sensitivity"
        /\ scenario' = NoScenario
        /\ UNCHANGED <<files, df_sites, snapshot>>

Next == CalculateImpact \/ IdentifyOpportunities \/ SensitivityAnalysis

Spec == Init /\ [][Next]_vars

----------------------------------------------------------------------------
(* SCENARIO ENGINE: capacity optimisation. The operation belongs to the
   repository's other ScenarioModeler, whose source is not among the three
   files modelled above; it is taken from section 4.4 of the specification,
   and costs its portfolio with the engine above. *)

\* reduction_percentage values, in percent
Reductions == {10, 50}

\* agreed_capacity_kva * (1 - reduction_percentage), rounded to the nearest
\* integer
ReducedCapacity(x, r) ==
    IF isna(x) THEN NaN ELSE Num(Units(RoundDiv(Val(x) * (100 - r), 100 * 100)))

ReduceCapacity(rows, r) ==
    [i \in 1..Len(rows) |->
        [rows[i] EXCEPT !.agreed_capacity_kva = ReducedCapacity(rows[i].agreed_capacity_kva, r)]]

\* the scenario portfolio: a fresh copy of the baseline with the capacities
\* reduced
ScenarioCopy(cp, r) ==
    [frames |-> [cp.frames EXCEPT ![cp.id].rows = ReduceCapacity(@, r)],
     id |-> cp.id]

\* Capacity optimisation of the modeler's baseline: transform a copy, cost it
\* for the modeler's year, return it tagged with the scenario name.
CapacityOptimisation ==
    /\ modeler # NoModeler
    /\ \E r \in Reductions, t \in load_and_clean_data(files) :
       \E sc \in {ScenarioCopy(DataFrameCopy(frames, modeler.baseline_sites), r)} :
       \E c \in {calculate_portfolio_impact(sc.frames, sc.id, t, modeler.year)} :
       \E h \in {Collect(c.frames, df_sites, modeler.baseline_sites, df_sens)} :
        /\ frames' = h.frames
        /\ modeler' = [modeler EXCEPT !.baseline_sites = h.baseline_sites]
        /\ df_sens' = h.df_sens
        /\ scenario' = [name |-> "capacity_optimisation",
                        reduction_percentage |-> r,
                        sites |-> sc.frames[sc.id].rows,
                        result |-> c.result]
        /\ op' = "capacity_optimisation"
        /\ UNCHANGED <<files, df_sites, snapshot, res, res_sens, opportunities>>

NextScenario == IdentifyOpportunities \/ CapacityOptimisation

SpecScenario == Init /\ [][NextScenario]_vars

----------------------------------------------------------------------------
(* Tariff files with their rows in any order *)

\* rows of a half-hourly tariff file
MaxForecastRows == 3

\* publications for three (year, zone) groups: an older and two latest of
\* the same date for (2026, 1), an older and a later one for (2026, 2)
ForecastRows ==
    { Row(2026, 1, Date(15, 1, 2025), 4000),
      Row(2026, 1, Date(3, 2, 2025), 5123),
      Row(2026, 1, Date(3, 2, 2025), 5200),
      Row(2026, 2, Date(1, 12, 2024), 2400),
      Row(2026, 2, Date(3, 2, 2025), 2500),
      Row(2027, 1, Date(1, 12, 2024), 6000) }

\* the files of 1..MaxForecastRows distinct rows, in every order
ForecastFiles ==
    UNION { { f \in [1..n -> ForecastRows] :
                \A i, j \in 1..n : f[i] = f[j] => i = j }
            : n \in 1..MaxForecastRows }

InitForecast ==
    \E h \in ForecastFiles :
        Loaded([FilesA EXCEPT !.hh = h],
               << [site_id |-> 1] @@ Site(S_HH, S_LV, 1, Num(Units(141)), Num(0)),
                  [site_id |-> 2] @@ Site(S_HH, S_LV, 2, Num(Units(160)), Num(0)) >>)

NextForecast == CalculateImpact

SpecForecast == InitForecast /\ [][NextForecast]_vars

----------------------------------------------------------------------------
(* One-site portfolios over the boundary values of every table *)

MeterTypes == {S_HH, S_NHH, <<"h", "h">>, <<"N", "H", "H", " ">>, <<"X", "X">>}

Voltages == {S_LV, S_HV, S_EHV, <<"l", "v">>, <<" ", "H", "V">>, S_MV}

\* every threshold T and 1.2 * T of the tables, with the next value above
CapacityValues ==
    {NaN, Num(0), Num(8050)}
    \cup {Num(Units(n)) : n \in
            {80, 81, 96, 97, 150, 151, 160, 180, 181, 231, 232, 277, 278,
             422, 423, 506, 507, 1000, 1001, 1200, 1201, 1800, 1801, 2160, 2161,
             5000, 5001, 6000, 6001, 12000, 12001, 14400, 14401,
             21500, 21501, 25800, 25801}}

ConsumptionValues ==
    {NaN, Num(0)}
    \cup {Num(Units(n)) : n \in
            {3571, 3572, 4285, 4286, 12000, 12553, 12554, 13000, 15063, 15064,
             25279, 25280, 30334, 30335}}

BoundarySites ==
    {Site(m, v, 1, kva, kwh) :
        m \in MeterTypes, v \in Voltages, kva \in CapacityValues,
        kwh \in {Num(0), Num(Units(13000))}}
    \cup
    {Site(m, v, 1, kva, kwh) :
        m \in MeterTypes, v \in Voltages, kva \in {NaN, Num(0), Num(Units(160))},
        kwh \in ConsumptionValues}

InitOneSite ==
    \E site \in BoundarySites : Loaded(FilesA, <<[site_id |-> 1] @@ site>>)

\* the function applied once to the site
NextOneSite ==
    \/ op = "load" /\ CalculateImpact
    \/ op = "load" /\ IdentifyOpportunities

SpecOneSite == InitOneSite /\ [][NextOneSite]_vars

-----------------------------------------------------------------------------
(* What the session holds: the rows that have been costed, and each costing
   run with the frame it was given *)

CostedRows ==
    {res.rows[i] : i \in DOMAIN res.rows}
    \cup {res_sens.rows[i] : i \in DOMAIN res_sens.rows}
    \cup {opportunities.df_res.rows[i] : i \in DOMAIN opportunities.df_res.rows}

Runs ==
    (IF res # NoResult /\ op = "calculate"
     THEN {[input |-> frames[df_sites].rows, output |-> res]} ELSE {})
    \cup (IF res # NoResult /\ op = "sensitivity"
          THEN {[input |-> frames[df_sites].rows, output |-> res],
                [input |-> frames[df_sens].rows, output |-> res_sens]} ELSE {})
    \cup (IF op = "opportunities"
          THEN {[input |-> frames[modeler.baseline_sites].rows,
                 output |-> opportunities.df_res]} ELSE {})

BandName(n) == <<"Band 1", "Band 2", "Band 3", "Band 4">>[n]

\* the band whose inclusive upper limits are the given three, for a quantity
\* in hundredths: one more than the number of limits it exceeds
BandOf(limits, x) ==
    BandName(1 + Cardinality({k \in 1..3 : x > Units(limits[k])}))

CapacityLimits(voltage) ==
    IF voltage = S_LV THEN <<80, 150, 231>>
    ELSE IF voltage = S_HV THEN <<422, 1000, 1800>>
    ELSE <<5000, 12000, 21500>>

ConsumptionLimits == <<3571, 12553, 25279>>

-----------------------------------------------------------------------------
(* C1 *)

\* C1: a half-hourly site with a positive agreed capacity at LV, HV or EHV
\* gets the band of its voltage's capacity table, every limit being the
\* inclusive upper bound of its band and anything above the third limit
\* being Band 4.
C1_CapacityBands ==
    \A r \in CostedRows :
        (/\ r.meter_type = S_HH
         /\ r.voltage_level \in {S_LV, S_HV, S_EHV}
         /\ ~isna(r.agreed_capacity_kva)
         /\ Val(r.agreed_capacity_kva) > 0)
        => r.tcr_band = BandOf(CapacityLimits(r.voltage_level),
                               Val(r.agreed_capacity_kva))

\* an LV half-hourly site of exactly 80 kVA has been costed as Band 1
C1_Witness ==
    \E r \in CostedRows :
        /\ r.meter_type = S_HH
        /\ r.voltage_level = S_LV
        /\ r.agreed_capacity_kva = Num(Units(80))
        /\ r.tcr_band = "Band 1"

-----------------------------------------------------------------------------
(* C2 *)

\* C2: a non-half-hourly site, and a half-hourly site whose agreed capacity
\* is zero, gets the band of the consumption table from its annual
\* consumption alone, whatever its voltage; so the two get the same band for
\* the same consumption.
C2_ConsumptionBands ==
    \A r \in CostedRows :
        (/\ \/ r.meter_type = S_NHH
            \/ r.meter_type = S_HH /\ r.agreed_capacity_kva = Num(0)
         /\ ~isna(r.annual_consumption_kwh))
        => r.tcr_band = BandOf(ConsumptionLimits, Val(r.annual_consumption_kwh))

\* a half-hourly site of zero capacity at a voltage outside LV/HV/EHV has
\* been costed as Band 3 on its 13,000 kWh
C2_Witness ==
    \E r \in CostedRows :
        /\ r.meter_type = S_HH
        /\ r.agreed_capacity_kva = Num(0)
        /\ r.voltage_level = S_MV
        /\ r.annual_consumption_kwh = Num(Units(13000))
        /\ r.tcr_band = "Band 3"

-----------------------------------------------------------------------------
(* C3 *)

\* the path the classifier took for a costed row
OnConsumptionPath(r) ==
    LET meter_type == upper(strip(r.meter_type))
    IN  \/ meter_type = S_NHH
        \/ /\ meter_type = S_HH
           /\ (isna(r.agreed_capacity_kva) \/ r.agreed_capacity_kva = Num(0))

\* C3: the residual key is None exactly for an Unclassified band; otherwise
\* it is LV_NoMIC_<n> when the classifier took the consumption path and
\* <voltage><n> when it took the capacity path, n being the band's number:
\* the resolver and the classifier agree on the path for every site.
C3_KeyFollowsClassifier ==
    \A r \in CostedRows :
        /\ (r.tdr_key = None) <=> (r.tcr_band = "Unclassified")
        /\ r.tcr_band # "Unclassified"
           => r.tdr_key = IF OnConsumptionPath(r)
                          THEN S_LV_NoMIC \o <<"_", BandNum(r.tcr_band)>>
                          ELSE upper(strip(r.voltage_level)) \o <<BandNum(r.tcr_band)>>

-----------------------------------------------------------------------------
(* The tariff files read directly: the rate a lookup is expected to find *)

Abs(x) == IF x < 0 THEN -x ELSE x

Earlier(a, b) ==
    \/ a[3] < b[3]
    \/ a[3] = b[3] /\ a[2] < b[2]
    \/ a[3] = b[3] /\ a[2] = b[2] /\ a[1] < b[1]

Published(file, year, group) ==
    {i \in DOMAIN file : file[i].Year_FY = year /\ file[i].Group = group}

HasTariff(file, year, group) == Published(file, year, group) # {}

\* the tariff of the latest publication for (year, group)
LatestTariff(file, year, group) ==
    LET latest == CHOOSE i \in Published(file, year, group) :
                     \A j \in Published(file, year, group) :
                         ~Earlier(file[i].Published_Date, file[j].Published_Date)
    IN  Val(file[latest].Tariff)

LocationalFile(r) ==
    IF r.meter_type = S_HH THEN files.hh
    ELSE IF r.meter_type = S_NHH THEN files.nhh
    ELSE <<>>

HasLocational(r, year) == HasTariff(LocationalFile(r), year, r.dno_zone)

HasResidual(r, year) == r.tdr_key # None /\ HasTariff(files.tdr, year, r.tdr_key)

\* locational_cost_pound (pence) is rate x quantity to the nearest penny:
\* rate in thousandths, quantity in hundredths, NHH rates being pence
LocationalFromOwnRate(r, year) ==
    LET rate == LatestTariff(LocationalFile(r), year, r.dno_zone)
        qty == IF r.meter_type = S_HH THEN r.agreed_capacity_kva
               ELSE r.annual_consumption_kwh
        d == IF r.meter_type = S_HH THEN 1000 ELSE 100000
    IN  /\ r.locational_rate = Num(rate)
        /\ IF isna(qty) THEN r.locational_cost_pound = 0
           ELSE Abs(r.locational_cost_pound * d - rate * Val(qty)) <= d \div 2

\* residual_cost_pound (pence) is the daily rate x 365 to the nearest penny
ResidualFromKeyRate(r, year) ==
    Abs(r.residual_cost_pound * 10 - LatestTariff(files.tdr, year, r.tdr_key) * 365) <= 5

-----------------------------------------------------------------------------
(* C4 *)

\* C4: for every site of a result, total_tnuos_cost is locational_cost_pound
\* plus residual_cost_pound to two decimals, also when one of the two lookups
\* found nothing and when the site is Unclassified.
C4_TotalIsSum ==
    \A r \in CostedRows :
        r.total_tnuos_cost = r.locational_cost_pound + r.residual_cost_pound

-----------------------------------------------------------------------------
(* C5 *)

\* C5: a costing never fails for a missing rate and returns one row per site
\* in the portfolio's order; a site without locational rate has locational
\* cost 0 and its residual as priced, a site without residual rate has
\* residual 0 and its locational cost as priced, and when the year has no
\* rows in any table all three costs of every site are 0.
C5_MissingRatesGiveZero ==
    \A run \in Runs :
        LET rows == run.output.rows
            year == run.output.year
        IN  /\ run.output.ok
            /\ Len(rows) = Len(run.input)
            /\ \A i \in DOMAIN run.input :
                  /\ \A c \in DOMAIN run.input[i] : rows[i][c] = run.input[i][c]
                  /\ ~HasLocational(rows[i], year)
                     => /\ rows[i].locational_cost_pound = 0
                        /\ IF HasResidual(rows[i], year)
                           THEN ResidualFromKeyRate(rows[i], year)
                           ELSE rows[i].residual_cost_pound = 0
                  /\ ~HasResidual(rows[i], year)
                     => /\ rows[i].residual_cost_pound = 0
                        /\ IF HasLocational(rows[i], year)
                           THEN LocationalFromOwnRate(rows[i], year)
                           ELSE rows[i].locational_cost_pound = 0
                  /\ (/\ \A k \in DOMAIN files.hh : files.hh[k].Year_FY # year
                      /\ \A k \in DOMAIN files.nhh : files.nhh[k].Year_FY # year
                      /\ \A k \in DOMAIN files.tdr : files.tdr[k].Year_FY # year)
                     => /\ rows[i].locational_cost_pound = 0
                        /\ rows[i].residual_cost_pound = 0
                        /\ rows[i].total_tnuos_cost = 0

\* a costed portfolio of two sites: the first in a zone without locational
\* tariff, with its residual cost, the second in a band without residual
\* tariff, with its locational cost
C5_Witness ==
    /\ op = "calculate"
    /\ res.ok
    /\ Len(res.rows) = 2
    /\ ~HasLocational(res.rows[1], res.year)
    /\ res.rows[1].locational_cost_pound = 0
    /\ res.rows[1].residual_cost_pound > 0
    /\ ~HasResidual(res.rows[2], res.year)
    /\ res.rows[2].residual_cost_pound = 0
    /\ res.rows[2].locational_cost_pound > 0

-----------------------------------------------------------------------------
(* C6 *)

\* C6: the locational cost of an HH site is the HH rate of the target year
\* and of its own zone times its agreed capacity, and of an NHH site the NHH
\* rate of the year and of its own zone times its consumption over 100, each
\* rounded to two decimals: the rate of another meter type, zone or year is
\* never used.
C6_LocationalFromOwnRate ==
    \A run \in Runs :
        \A i \in DOMAIN run.output.rows :
            LET r == run.output.rows[i]
            IN  (r.meter_type \in {S_HH, S_NHH} /\ HasLocational(r, run.output.year))
                => LocationalFromOwnRate(r, run.output.year)

\* two HH sites of different zones costed for 2026, each at its own zone's
\* latest rate
C6_Witness ==
    /\ op = "calculate"
    /\ res.year = 2026
    /\ Len(res.rows) = 2
    /\ \A i \in 1..2 : res.rows[i].meter_type = S_HH /\ HasLocational(res.rows[i], 2026)
    /\ res.rows[1].dno_zone # res.rows[2].dno_zone
    /\ res.rows[1].locational_rate # res.rows[2].locational_rate
    /\ res.rows[1].locational_cost_pound > 0
    /\ res.rows[2].locational_cost_pound > 0

-----------------------------------------------------------------------------
(* C7 *)

\* C7: the residual cost of a site whose key has a rate for the target year
\* is that daily rate times 365, rounded to two decimals, so two sites with
\* the same key have the same residual cost whatever their zone, capacity or
\* consumption.
C7_ResidualFromKey ==
    \A run \in Runs :
        \A i \in DOMAIN run.output.rows :
            LET r == run.output.rows[i]
            IN  /\ HasResidual(r, run.output.year)
                   => ResidualFromKeyRate(r, run.output.year)
                /\ \A j \in DOMAIN run.output.rows :
                      run.output.rows[j].tdr_key = r.tdr_key
                      => run.output.rows[j].residual_cost_pound = r.residual_cost_pound

\* two sites of the same key, of different zones and capacities, with the
\* same residual cost
C7_Witness ==
    /\ op = "calculate"
    /\ Len(res.rows) = 2
    /\ res.rows[1].tdr_key = res.rows[2].tdr_key
    /\ res.rows[1].dno_zone # res.rows[2].dno_zone
    /\ res.rows[1].agreed_capacity_kva # res.rows[2].agreed_capacity_kva
    /\ HasResidual(res.rows[1], res.year)
    /\ res.rows[1].residual_cost_pound > 0
    /\ res.rows[2].residual_cost_pound = res.rows[1].residual_cost_pound

-----------------------------------------------------------------------------
(* The analyzer's inputs read from a result row *)

\* the metric the analyzer compares: capacity for HH, consumption for NHH
MetricOf(r) ==
    IF r.meter_type = S_HH THEN r.agreed_capacity_kva ELSE r.annual_consumption_kwh

\* the target of the row's band in the map selected for it, -1 when there is
\* no map or no entry
TargetOf(r) ==
    LET limits == IF r.meter_type = S_HH /\ r.voltage_level \in {S_LV, S_HV, S_EHV}
                  THEN CapacityLimits(r.voltage_level)
                  ELSE IF r.meter_type = S_NHH THEN ConsumptionLimits
                  ELSE <<>>
        n == CASE r.tcr_band = "Band 2" -> 1
               [] r.tcr_band = "Band 3" -> 2
               [] r.tcr_band = "Band 4" -> 3
               [] OTHER -> 0
    IN  IF limits = <<>> \/ n = 0 THEN -1 ELSE Units(limits[n])

\* target_val < metric_value <= 1.2 * target_val
WithinTwentyPercent(r) ==
    /\ TargetOf(r) >= 0
    /\ ~isna(MetricOf(r))
    /\ TargetOf(r) < Val(MetricOf(r))
    /\ 5 * Val(MetricOf(r)) <= 6 * TargetOf(r)

\* the row an opportunity was reported for
RowOf(o) ==
    CHOOSE r \in CostedRows : r.site_id = o.Site_ID

-----------------------------------------------------------------------------
(* C8 *)

\* C8: the analysis never raises and reports a site exactly when the map
\* selected for it has a target for its current band and the site's metric
\* is above the target and at most 20% above it; the report names the
\* site's band and that target.
C8_ReportedIffWithinMargin ==
    op = "opportunities"
    => /\ opportunities.ok
       /\ \A i \in DOMAIN opportunities.df_res.rows :
             LET r == opportunities.df_res.rows[i]
             IN  WithinTwentyPercent(r)
                 <=> \E k \in DOMAIN opportunities.rows :
                        /\ opportunities.rows[k].Site_ID = r.site_id
                        /\ opportunities.rows[k].Current_Band = r.tcr_band
                        /\ opportunities.rows[k].Target_Level.value * 100 = TargetOf(r)
       /\ Len(opportunities.rows)
            = Cardinality({i \in DOMAIN opportunities.df_res.rows :
                              WithinTwentyPercent(opportunities.df_res.rows[i])})

\* the LV HH site of 160 kVA reported in Band 3 against the target 150
C8_Witness ==
    /\ op = "opportunities"
    /\ \E k \in DOMAIN opportunities.rows :
          /\ opportunities.rows[k].Current_Band = "Band 3"
          /\ opportunities.rows[k].Current_Level = [value |-> 160, unit |-> "kVA"]
          /\ opportunities.rows[k].Target_Level = [value |-> 150, unit |-> "kVA"]

-----------------------------------------------------------------------------
(* C9 *)

-----------------------------------------------------------------------------
(* C10 *)

\* C10: whatever costings, opportunity analyses and what-if scalings have
\* run, the caller's portfolio is as loaded, the modeler's baseline copy is
\* a separate frame with the same content, the what-if portfolio is a frame
\* of its own, and the baseline result held is the one the portfolio as
\* loaded gives for that year.
C10_BaselineUnchanged ==
    /\ frames[df_sites] = snapshot
    /\ modeler # NoModeler
       => /\ modeler.baseline_sites # df_sites
          /\ frames[modeler.baseline_sites] = snapshot
    /\ df_sens # 0 => df_sens \notin {df_sites, modeler.baseline_sites}
    /\ res # NoResult
       => \A t \in load_and_clean_data(files) :
             res = calculate_portfolio_impact([i \in {1} |-> snapshot], 1, t,
                                              res.year).result

\* after a what-if scaling: the scaled copy differs from the portfolio and
\* its result from the baseline's
C10_Witness ==
    /\ op = "sensitivity"
    /\ df_sens # 0
    /\ frames[df_sens].rows # snapshot.rows
    /\ res.ok /\ res.rows # <<>>
    /\ res_sens.ok /\ res_sens.rows # res.rows

-----------------------------------------------------------------------------
(* C11 *)

-----------------------------------------------------------------------------
(* C12 *)

\* a site record with a missing capacity or consumption replaced by 0
ZeroFilled(site) ==
    [site EXCEPT
        !.agreed_capacity_kva = IF isna(@) THEN Num(0) ELSE @,
        !.annual_consumption_kwh = IF isna(@) THEN Num(0) ELSE @]

\* the result row of costing one site alone for a year
CostedAlone(site, t, year) ==
    calculate_portfolio_impact([i \in {1} |-> [rows |-> <<site>>, derived |-> <<>>]],
                               1, t, year).result.rows[1]

\* C12: costing completes for a site whose capacity or consumption is
\* missing, and gives it the band and the three costs of the same site with
\* 0 in place of the missing value.
C12_MissingAsZero ==
    \A run \in Runs :
        /\ run.output.ok
        /\ \A i \in DOMAIN run.input :
              (isna(run.input[i].agreed_capacity_kva)
               \/ isna(run.input[i].annual_consumption_kwh))
              => \A t \in load_and_clean_data(files) :
                    LET r == run.output.rows[i]
                        z == CostedAlone(ZeroFilled(run.input[i]), t, run.output.year)
                    IN  /\ r.tcr_band = z.tcr_band
                        /\ r.locational_cost_pound = z.locational_cost_pound
                        /\ r.residual_cost_pound = z.residual_cost_pound
                        /\ r.total_tnuos_cost = z.total_tnuos_cost

-----------------------------------------------------------------------------
(* C13 *)

\* C13: costing returns Unclassified, and does not fail, for every site on
\* the capacity path whose voltage is not LV, HV or EHV and for every site
\* whose meter type is neither HH nor NHH; an Unclassified site has no
\* tariff key and a residual cost of 0.
C13_UnknownIsUnclassified ==
    /\ \A run \in Runs : run.output.ok
    /\ \A r \in CostedRows :
          /\ (/\ ~OnConsumptionPath(r)
              /\ upper(strip(r.voltage_level)) \notin {S_LV, S_HV, S_EHV})
             => r.tcr_band = "Unclassified"
          /\ upper(strip(r.meter_type)) \notin {S_HH, S_NHH}
             => r.tcr_band = "Unclassified"
          /\ r.tcr_band = "Unclassified"
             => r.tdr_key = None /\ r.residual_cost_pound = 0

-----------------------------------------------------------------------------
(* C14 *)

\* the target of the row's band in the consumption map, -1 when it has none
ConsumptionTargetOf(r) ==
    CASE r.tcr_band = "Band 2" -> Units(ConsumptionLimits[1])
      [] r.tcr_band = "Band 3" -> Units(ConsumptionLimits[2])
      [] r.tcr_band = "Band 4" -> Units(ConsumptionLimits[3])
      [] OTHER -> -1

\* the opportunities reported for a row, with a given unit
ReportedIn(r, unit) ==
    {k \in DOMAIN opportunities.rows :
        /\ opportunities.rows[k].Site_ID = r.site_id
        /\ opportunities.rows[k].Current_Level.unit = unit}

\* C14: the analysis takes the metric the classification took: consumption
\* in kWh against the consumption map for an NHH site and for an HH site
\* with capacity 0, capacity in kVA only for an HH site with non-zero
\* capacity; so an HH site of capacity 0 with 13,000 kWh (Band 3, target
\* 12,553) is reported in kWh.
C14_MetricAsClassified ==
    op = "opportunities"
    => \A i \in DOMAIN opportunities.df_res.rows :
          LET r == opportunities.df_res.rows[i]
          IN  /\ (\/ r.meter_type = S_NHH
                  \/ r.meter_type = S_HH /\ r.agreed_capacity_kva = Num(0))
                 => /\ ReportedIn(r, "kVA") = {}
                    /\ ReportedIn(r, "kWh") # {}
                       <=> /\ ConsumptionTargetOf(r) >= 0
                           /\ ~isna(r.annual_consumption_kwh)
                           /\ ConsumptionTargetOf(r) < Val(r.annual_consumption_kwh)
                           /\ 5 * Val(r.annual_consumption_kwh) <= 6 * ConsumptionTargetOf(r)
              /\ (/\ r.meter_type = S_HH
                  /\ ~isna(r.agreed_capacity_kva)
                  /\ Val(r.agreed_capacity_kva) > 0)
                 => ReportedIn(r, "kWh") = {}

-----------------------------------------------------------------------------
(* C15 *)

\* the row's metric, by the analysis or by the classification, is a limit
\* of its map
OnThreshold(r) ==
    \/ /\ r.meter_type = S_HH
       /\ r.voltage_level \in {S_LV, S_HV, S_EHV}
       /\ \E k \in 1..3 :
             r.agreed_capacity_kva = Num(Units(CapacityLimits(r.voltage_level)[k]))
    \/ /\ \/ r.meter_type = S_NHH
          \/ r.meter_type = S_HH /\ r.agreed_capacity_kva = Num(0)
       /\ \E k \in 1..3 : r.annual_consumption_kwh = Num(Units(ConsumptionLimits[k]))

\* C15: a site whose metric equals the target of its current band, or any
\* limit of its map, is not reported as an opportunity.
C15_ThresholdNotReported ==
    op = "opportunities"
    => \A i \in DOMAIN opportunities.df_res.rows :
          LET r == opportunities.df_res.rows[i]
          IN  (OnThreshold(r) \/ (TargetOf(r) >= 0 /\ MetricOf(r) = Num(TargetOf(r))))
              => \A k \in DOMAIN opportunities.rows :
                    opportunities.rows[k].Site_ID # r.site_id

\* the LV HH site of exactly 150 kVA analysed in Band 2 and not reported
C15_Witness ==
    /\ op = "opportunities"
    /\ opportunities.rows = <<>>
    /\ \E i \in DOMAIN opportunities.df_res.rows :
          /\ opportunities.df_res.rows[i].meter_type = S_HH
          /\ opportunities.df_res.rows[i].voltage_level = S_LV
          /\ opportunities.df_res.rows[i].agreed_capacity_kva = Num(Units(150))
          /\ opportunities.df_res.rows[i].tcr_band = "Band 2"

-----------------------------------------------------------------------------
(* C16 *)

\* every table get_latest_forecast may return for a file has one row per
\* (year, group) of the file, and no more, each a row of the file whose
\* publication date no row of its group exceeds
LatestWins(file, col) ==
    \A out \in get_latest_forecast(file, col) :
        /\ \A i, j \in DOMAIN out :
              (out[i].Year_FY = out[j].Year_FY /\ out[i].Group = out[j].Group)
              => i = j
        /\ \A k \in DOMAIN file :
              \E i \in DOMAIN out :
                 out[i].Year_FY = file[k].Year_FY /\ out[i].Group = file[k].Group
        /\ \A i \in DOMAIN out :
              /\ \E k \in DOMAIN file : out[i] = file[k]
              /\ \A k \in DOMAIN file :
                    (file[k].Year_FY = out[i].Year_FY /\ file[k].Group = out[i].Group)
                    => ~Earlier(out[i].Published_Date, file[k].Published_Date)

\* C16: after get_latest_forecast each table has at most one row per (year,
\* group), every (year, group) of the file is kept, and the kept row has the
\* latest publication date of its group, whatever the order of the file's
\* rows; so a costing returns exactly the portfolio's rows, in order, each
\* HH site at a latest rate of its zone.
C16_LatestForecastWins ==
    /\ LatestWins(files.hh, "Zone_No")
    /\ LatestWins(files.nhh, "Zone_No")
    /\ LatestWins(files.tdr, "TDR Band")
    /\ \A run \in Runs :
          /\ run.output.ok
          /\ Len(run.output.rows) = Len(run.input)
          /\ \A i \in DOMAIN run.input :
                /\ run.output.rows[i].site_id = run.input[i].site_id
                /\ (run.output.rows[i].meter_type = S_HH
                    /\ HasLocational(run.output.rows[i], run.output.year))
                   => \E k \in Published(files.hh, run.output.year,
                                         run.output.rows[i].dno_zone) :
                         /\ run.output.rows[i].locational_rate = files.hh[k].Tariff
                         /\ \A j \in Published(files.hh, run.output.year,
                                               run.output.rows[i].dno_zone) :
                               ~Earlier(files.hh[k].Published_Date,
                                        files.hh[j].Published_Date)

\* a costing for 2026 from a file whose first row is the latest publication
\* for zone 1 and whose later rows hold an older one: both sites returned,
\* the first at the latest rate
C16_Witness ==
    /\ op = "calculate"
    /\ res.year = 2026
    /\ Len(files.hh) = 3
    /\ files.hh[1] = Row(2026, 1, Date(3, 2, 2025), 5123)
    /\ files.hh[3] = Row(2026, 1, Date(15, 1, 2025), 4000)
    /\ Len(res.rows) = 2
    /\ res.rows[1].locational_rate = Num(5123)

-----------------------------------------------------------------------------
(* C17 *)

\* the column an opportunity was measured in
ColumnOf(o) ==
    IF o.Current_Level.unit = "kVA" THEN "agreed_capacity_kva"
    ELSE "annual_consumption_kwh"

\* the band the classifier gives the opportunity's site with m (hundredths)
\* as its metric
Reclassified(o, m) ==
    determine_tcr_band([RowOf(o) EXCEPT ![ColumnOf(o)] = Num(m)])

\* C17: for every reported opportunity, the site with its metric replaced by
\* the reported target is classified into the next lower band, and with any
\* metric above the target and below its current value it stays in its
\* current band.
C17_TargetIsBandBoundary ==
    op = "opportunities"
    => \A k \in DOMAIN opportunities.rows :
          LET o == opportunities.rows[k]
              target == Units(o.Target_Level.value)
              current == Val(RowOf(o)[ColumnOf(o)])
          IN  /\ \E n \in 2..4 :
                    /\ o.Current_Band = BandName(n)
                    /\ Reclassified(o, target) = BandName(n - 1)
              /\ \A m \in {target + 1, (target + current) \div 2, current - 1} :
                    (target < m /\ m < current)
                    => Reclassified(o, m) = o.Current_Band

\* the NHH site of 13,000 kWh reported in Band 3 against 12,553 kWh
C17_Witness ==
    /\ op = "opportunities"
    /\ \E k \in DOMAIN opportunities.rows :
          /\ RowOf(opportunities.rows[k]).meter_type = S_NHH
          /\ opportunities.rows[k].Current_Band = "Band 3"
          /\ opportunities.rows[k].Current_Level = [value |-> 13000, unit |-> "kWh"]
          /\ opportunities.rows[k].Target_Level = [value |-> 12553, unit |-> "kWh"]

-----------------------------------------------------------------------------
(* C18 *)

BandIndex(band) == CHOOSE n \in 1..4 : BandName(n) = band

\* the capacities a site is lowered to: the boundary values and 1 kVA
LoweredCapacities == CapacityValues \cup {Num(Units(1))}

\* a costed half-hourly site at LV, HV or EHV with a capacity
HalfHourlyWithCapacity(r) ==
    /\ r.meter_type = S_HH
    /\ r.voltage_level \in {S_LV, S_HV, S_EHV}
    /\ ~isna(r.agreed_capacity_kva)

\* the band of the site with capacity c in place of its own
WithCapacity(r, c) == determine_tcr_band([r EXCEPT !.agreed_capacity_kva = c])

\* C18 as stated: lowering the agreed capacity of such a site to any smaller
\* value, 0 included, never gives a higher band number.
C18_MonotoneDownToZero ==
    \A r \in CostedRows :
        HalfHourlyWithCapacity(r)
        => \A c \in LoweredCapacities :
              (~isna(c) /\ Val(c) < Val(r.agreed_capacity_kva))
              => BandIndex(WithCapacity(r, c)) <= BandIndex(r.tcr_band)

\* C18: lowering the agreed capacity of such a site to any smaller value
\* above 0 never gives a higher band number.
C18_MonotoneAboveZero ==
    \A r \in CostedRows :
        HalfHourlyWithCapacity(r)
        => \A c \in LoweredCapacities :
              (~isna(c) /\ 0 < Val(c) /\ Val(c) < Val(r.agreed_capacity_kva))
              => BandIndex(WithCapacity(r, c)) <= BandIndex(r.tcr_band)

\* the LV site of 160 kVA and 13,000 kWh costed in Band 3, which 150 kVA
\* would put in Band 2
C18_Witness ==
    \E r \in CostedRows :
        /\ HalfHourlyWithCapacity(r)
        /\ r.voltage_level = S_LV
        /\ r.agreed_capacity_kva = Num(Units(160))
        /\ r.annual_consumption_kwh = Num(Units(13000))
        /\ r.tcr_band = "Band 3"
        /\ WithCapacity(r, Num(Units(150))) = "Band 2"

-----------------------------------------------------------------------------
(* C19 *)

\* C19: every reported opportunity needs a reduction, from the site's
\* current metric to the reported target, that is above 0 and at most one
\* sixth of the current metric, so its percentage is written below 20%; and
\* no site is reported twice.
C19_ReductionAtMostOneSixth ==
    op = "opportunities"
    => /\ \A k \in DOMAIN opportunities.rows :
             LET o == opportunities.rows[k]
                 metric_value == Val(MetricOf(RowOf(o)))
                 reduction == metric_value - Units(o.Target_Level.value)
             IN  /\ 0 < reduction
                 /\ 6 * reduction <= metric_value
                 /\ o.Reduction_Needed.value >= 0
                 /\ o.Reduction_Needed.pct >= 0
                 /\ o.Reduction_Needed.pct < 200
       /\ \A k, l \in DOMAIN opportunities.rows :
             opportunities.rows[k].Site_ID = opportunities.rows[l].Site_ID => k = l

\* the LV HH site of 96 kVA reported against 80 kVA: a reduction of exactly
\* one sixth, written 16.7%
C19_Witness ==
    /\ op = "opportunities"
    /\ \E k \in DOMAIN opportunities.rows :
          /\ opportunities.rows[k].Current_Level = [value |-> 96, unit |-> "kVA"]
          /\ opportunities.rows[k].Target_Level = [value |-> 80, unit |-> "kVA"]
          /\ opportunities.rows[k].Reduction_Needed
               = [value |-> 160, unit |-> "kVA", pct |-> 167]

=============================================================================
